---------------------------- MODULE Spec2Model ----------------------------
(***************************************************************************)
(* Task analyzer: the scoring engine of backend/tasks/scoring.py           *)
(* (normalisation, cycle detection, dependency impact, weight resolution,  *)
(* factor scoring, sorting) and the suggestion endpoint of                 *)
(* backend/tasks/views.py with the TaskSerializer of serializers.py.       *)
(*                                                                         *)
(* Numbers.  Dates are day numbers.  Weights are kept as integer           *)
(* numerators in hundredths over a common positive denominator (the        *)
(* preset 0.35 is 35 over 100; after renormalisation the denominator is    *)
(* the sum of the numerators).  A number that went through float() is an   *)
(* integer in units of 1/UNIT (1.001 hours is 1001).  Sub-scores are       *)
(* integers in units of 1/SCALE.  A score is an integer number of          *)
(* hundredths (6568 is 65.68).  Floating-point rounding error below these  *)
(* units is not modelled.                                                  *)
(***************************************************************************)
EXTENDS Integers, Sequences, FiniteSets, TLC

VARIABLES
    pc,               \* position of the request in the handler
    entry,            \* "score_tasks" (direct call) or "suggest" (POST endpoint)
    today,            \* date.today(), a day number
    tasks,            \* the batch handed to score_tasks (raw records)
    strategy,         \* strategy name
    weight_overrides, \* Null, or a mapping key -> hundredths (Absent keys left out)
    validated_tasks,  \* score_tasks: validated_tasks
    warnings,         \* score_tasks: warnings
    circular_deps,    \* score_tasks: circular_deps
    dependency_impact,\* score_tasks: dependency_impact
    weights,          \* score_tasks: weights
    strategies,       \* _get_strategy_weights: strategies, as the last call left it
    result,           \* what score_tasks returned or raised
    response,         \* what the endpoint answered
    previous          \* the arguments of the call before this one, or NoCall

vars == <<pc, entry, today, tasks, strategy, weight_overrides, validated_tasks,
          warnings, circular_deps, dependency_impact, weights, strategies, result,
          response, previous>>

(***************************************************************************)
(* Python values of a loosely typed record.  Each kind has its own field   *)
(* name, so values of different kinds are comparable.                      *)
(***************************************************************************)
Absent == [k |-> "absent"]                       \* the key is not in the mapping
Null == [k |-> "null"]                           \* None
Num(n) == [k |-> "num", n |-> n]                 \* an int or float of whole value n
Milli(m) == [k |-> "milli", m |-> m]             \* a float of value m / 1000
NumText(n) == [k |-> "numtext", n |-> n]         \* a string that float() reads as n
Str(s) == [k |-> "str", s |-> s]                 \* any other string
IsoDate(d) == [k |-> "isodate", day |-> d]       \* "YYYY-MM-DD" of day d
IsoDateTimeZ(d) == [k |-> "isodatetimez", day |-> d] \* "YYYY-MM-DDTHH:MM:SSZ" of day d
List(items) == [k |-> "list", items |-> items]   \* a list

IsString(v) == v.k \in {"numtext", "str", "isodate", "isodatetimez"}

\* dict.get(key): None when the key is absent
Get(v) == IF v.k = "absent" THEN Null ELSE v

\* dict.get(key, default)
GetOr(v, default) == IF v.k = "absent" THEN default ELSE v

\* str(x) of a dependency element or a title
PyStr(v) ==
    CASE v.k = "str" -> v.s
      [] v.k = "numtext" -> ToString(v.n)
      [] v.k = "num" -> ToString(v.n)
      [] v.k = "null" -> "None"
      [] OTHER -> "<" \o v.k \o ">"

\* floats are kept in units of 1/UNIT
UNIT == 1000

\* float(x): the value in units of 1/UNIT, or the exception raised
PyFloat(v) ==
    CASE v.k \in {"num", "numtext"} -> [ok |-> TRUE, n |-> v.n * UNIT, error |-> ""]
      [] v.k = "milli" -> [ok |-> TRUE, n |-> v.m, error |-> ""]
      [] IsString(v) -> [ok |-> FALSE, n |-> 0, error |-> "ValueError"]
      [] OTHER -> [ok |-> FALSE, n |-> 0, error |-> "TypeError"]

\* datetime.fromisoformat(s.replace("Z", "+00:00")).date(): the day, or failure
\* (AttributeError for a non-string, ValueError for a string that is no ISO date)
ParseDueDate(v) ==
    CASE v.k = "isodate" -> [ok |-> TRUE, day |-> v.day]
      [] v.k = "isodatetimez" -> [ok |-> TRUE, day |-> v.day]
      [] OTHER -> [ok |-> FALSE, day |-> 0]

Max(a, b) == IF a >= b THEN a ELSE b
Min(a, b) == IF a <= b THEN a ELSE b

(***************************************************************************)
(* Normalizer: _validate_task                                              *)
(***************************************************************************)
DefaultId(idx) == "task_" \o ToString(idx)
DefaultTitle(idx) == "Untitled Task " \o ToString(idx)

WarnDue(title) == "Task '" \o title \o "': Invalid or missing due date."
WarnHours(title) == "Task '" \o title \o "': Missing estimated_hours. Using default 1."
WarnImportance(title) == "Task '" \o title \o "': Missing importance. Using default 5."
WarnDeps(title) == "Task '" \o title \o "': Invalid dependencies format. Using empty list."

RECURSIVE StrEach(_)
StrEach(items) ==
    IF items = <<>> THEN <<>> ELSE <<PyStr(Head(items))>> \o StrEach(Tail(items))

Confidence(missing_count) == Max(0, 100 - 25 * missing_count)

\* incomplete without the assignment of line 141 (dependencies of a wrong shape)
Incomplete_NoDeps(dueOk, hoursMissing, impMissing, depsOk) ==
    (~dueOk) \/ hoursMissing \/ impMissing

\* validated['incomplete']: False at first, set True wherever a default
\* replaces a field with a warning (lines 110, 118, 128, 141)
Incomplete(dueOk, hoursMissing, impMissing, depsOk) ==
    (~dueOk) \/ hoursMissing \/ impMissing \/ ~depsOk

\* Returns [raised, error, task, warnings]; raised = TRUE models the exception
\* that float() throws out of _validate_task.  The code keeps id and title as
\* they come; they are strings in every input of the model, which PyStr
\* leaves as they are.
_validate_task(task, idx, td) ==
    LET id == PyStr(GetOr(task.id, Str(DefaultId(idx))))
        title == PyStr(GetOr(task.title, Str(DefaultTitle(idx))))
        due == ParseDueDate(Get(task.due_date))
        w1 == IF due.ok THEN <<>> ELSE <<WarnDue(title)>>
        hoursMissing == Get(task.estimated_hours).k = "null"
        hours == IF hoursMissing THEN [ok |-> TRUE, n |-> 1 * UNIT, error |-> ""]
                 ELSE PyFloat(Get(task.estimated_hours))
        w2 == IF hoursMissing THEN w1 \o <<WarnHours(title)>> ELSE w1
        impMissing == Get(task.importance).k = "null"
        imp == IF impMissing THEN [ok |-> TRUE, n |-> 5 * UNIT, error |-> ""]
               ELSE PyFloat(Get(task.importance))
        w3 == IF impMissing THEN w2 \o <<WarnImportance(title)>> ELSE w2
        deps == GetOr(task.dependencies, List(<<>>))
        depsOk == deps.k = "list"
        w4 == IF depsOk THEN w3 ELSE w3 \o <<WarnDeps(title)>>
        missing_count == (IF hoursMissing THEN 1 ELSE 0) + (IF impMissing THEN 1 ELSE 0)
        validated ==
            [id |-> id,
             title |-> title,
             past_due |-> due.ok /\ due.day < td,
             dependency_issue |-> FALSE,
             validation_warnings |-> w4,
             incomplete |-> Incomplete(due.ok, hoursMissing, impMissing, depsOk),
             due_date |-> IF due.ok THEN due.day ELSE td,
             estimated_hours |-> hours.n,
             importance |-> imp.n,
             dependencies |-> IF depsOk THEN StrEach(deps.items) ELSE <<>>,
             confidence |-> Confidence(missing_count)]
    IN  IF ~hours.ok
        THEN [raised |-> TRUE, error |-> hours.error, warnings |-> <<>>]
        ELSE IF ~imp.ok
        THEN [raised |-> TRUE, error |-> imp.error, warnings |-> <<>>]
        ELSE [raised |-> FALSE, error |-> "", task |-> validated, warnings |-> w4]

(***************************************************************************)
(* CycleDetector: _detect_circular_dependencies                            *)
(***************************************************************************)
\* keys of {task['id']: task for task in tasks}
IdsOf(ts) == {ts[i].id : i \in DOMAIN ts}

\* task_id_map[task_id]: with a repeated id the later record replaces the earlier
TaskById(ts, task_id) ==
    ts[CHOOSE i \in DOMAIN ts :
          /\ ts[i].id = task_id
          /\ \A j \in DOMAIN ts : ts[j].id = task_id => j <= i]

\* The closure state of dfs: visited, rec_stack and circular_tasks.
DfsInit == [visited |-> {}, rec_stack |-> {}, circular_tasks |-> {}]

\* the cycle hit without "circular_tasks.update(path)"
OnCycleHit_NoPath(path, st) == st

\* "circular_tasks.update(path)" when dfs meets a task on the recursion stack
OnCycleHit(path, st) == [st EXCEPT !.circular_tasks = @ \cup path]

\* the return of dfs without "rec_stack.remove(task_id)"
Leave_NoRemove(task_id, st) == st

\* "rec_stack.remove(task_id)" when dfs is done with a task
Leave(task_id, st) == [st EXCEPT !.rec_stack = @ \ {task_id}]

RECURSIVE dfs(_, _, _, _)
RECURSIVE dfs_deps(_, _, _, _, _)

\* dfs(task_id, path): [ret, st], the returned flag and the closure state after
dfs(ts, task_id, path, st) ==
    IF task_id \in st.rec_stack
    THEN [ret |-> TRUE, st |-> OnCycleHit(path, st)]
    ELSE IF task_id \in st.visited
    THEN [ret |-> FALSE, st |-> st]
    ELSE LET st1 == [st EXCEPT !.visited = @ \cup {task_id},
                               !.rec_stack = @ \cup {task_id}]
             path1 == path \cup {task_id}
             st2 == IF task_id \in IdsOf(ts)
                    THEN dfs_deps(ts, task_id, TaskById(ts, task_id).dependencies,
                                  path1, st1)
                    ELSE st1
         IN  [ret |-> FALSE, st |-> Leave(task_id, st2)]

\* the loop "for dep_id in task.get('dependencies', [])" of dfs
dfs_deps(ts, task_id, deps, path, st) ==
    IF deps = <<>> THEN st
    ELSE LET dep_id == Head(deps)
             r == dfs(ts, dep_id, path, st)
             st1 == IF dep_id \in IdsOf(ts)
                    THEN IF r.ret
                         THEN [r.st EXCEPT !.circular_tasks = @ \cup {task_id}]
                         ELSE r.st
                    ELSE st
         IN  dfs_deps(ts, task_id, Tail(deps), path, st1)

\* the loop "for task in tasks: if task['id'] not in visited: dfs(...)"
RECURSIVE dfs_all(_, _, _)
dfs_all(ts, i, st) ==
    IF i > Len(ts) THEN st
    ELSE IF ts[i].id \in st.visited
    THEN dfs_all(ts, i + 1, st)
    ELSE dfs_all(ts, i + 1, dfs(ts, ts[i].id, {}, st).st)

_detect_circular_dependencies(ts) == dfs_all(ts, 1, DfsInit).circular_tasks

(***************************************************************************)
(* ImpactCalculator: _calculate_dependency_impact                          *)
(***************************************************************************)
\* occurrences of id in the list deps
RECURSIVE CountIn(_, _)
CountIn(deps, id) ==
    IF deps = <<>> THEN 0
    ELSE (IF Head(deps) = id THEN 1 ELSE 0) + CountIn(Tail(deps), id)

\* impact[dep_id] += 1 for every listed dep_id that is a key, summed over
\* the tasks ts[i..]
RECURSIVE ImpactFrom(_, _, _)
ImpactFrom(ts, i, id) ==
    IF i > Len(ts) THEN 0
    ELSE CountIn(ts[i].dependencies, id) + ImpactFrom(ts, i + 1, id)

_calculate_dependency_impact(ts) == [id \in IdsOf(ts) |-> ImpactFrom(ts, 1, id)]

(***************************************************************************)
(* WeightResolver: _get_strategy_weights                                   *)
(***************************************************************************)
WeightKeys == <<"urgency", "importance", "effort", "dependency">>
KeySet == {WeightKeys[i] : i \in DOMAIN WeightKeys}

\* the presets, in hundredths
Strategies ==
    [smart    |-> [urgency |-> 35, importance |-> 35, effort |-> 15, dependency |-> 15],
     fast     |-> [urgency |-> 20, importance |-> 20, effort |-> 50, dependency |-> 10],
     impact   |-> [urgency |-> 15, importance |-> 60, effort |-> 10, dependency |-> 15],
     deadline |-> [urgency |-> 60, importance |-> 20, effort |-> 5, dependency |-> 15]]

\* the table kept from one call to the next instead of being built anew
NewStrategies_Kept(old) == old

\* "strategies = {...}": every call builds the table anew, whatever the name
\* held before
NewStrategies(old) == Strategies

\* the key of the table that strategies.get(strategy, strategies["smart"]) reads
PresetKey(table, strat) == IF strat \in DOMAIN table THEN strat ELSE "smart"

\* the lookup that ignores the strategy name
Preset_AlwaysSmart(table, strat) == table.smart

\* strategies.get(strategy, strategies["smart"])
Preset(table, strat) == table[PresetKey(table, strat)]

\* "if weight_overrides:" is false for None and for the empty mapping
Truthy(ov) == ov.k = "dict" /\ DOMAIN ov.items # {}

\* the preset with the overridden keys replaced
Substituted(table, strat, ov) ==
    [key \in KeySet |->
        IF Truthy(ov) /\ key \in DOMAIN ov.items THEN ov.items[key]
        ELSE Preset(table, strat)[key]]

\* the table after the call: "weights[key] = weight_overrides[key]" writes
\* into the entry of the table that weights refers to
StrategiesAfter(table, strat, ov) ==
    [table EXCEPT ![PresetKey(table, strat)] = Substituted(table, strat, ov)]

SumWeights(w) == w.urgency + w.importance + w.effort + w.dependency

\* the substituted weights returned without the renormalisation
_get_strategy_weights_NoRenorm(table, strat, ov) ==
    [num |-> Substituted(table, strat, ov), den |-> 100]

\* The resolved weight of key is num[key] / den.  Without overrides the
\* presets stand (den 100); with overrides the substituted values are divided
\* by their sum when it is positive and left as they are otherwise.
_get_strategy_weights(table, strat, ov) ==
    LET w == Substituted(table, strat, ov)
        total == SumWeights(w)
    IN  IF Truthy(ov) /\ total > 0
        THEN [num |-> w, den |-> total]
        ELSE [num |-> w, den |-> 100]

(***************************************************************************)
(* FactorScorer: _calculate_task_score and _get_priority_label             *)
(***************************************************************************)
\* sub-scores are integers in units of 1/SCALE (round(..., 4) of the urgency)
SCALE == 1000000
max_effort_hours == 40

\* round(min(1.0, max(0.0, 0.20 + 0.80 * exp(-d / 14.0))), 4) * SCALE for
\* d = 1 .. 135; from d = 136 on the rounded value is 0.2000
OverdueUrgencyTable ==
    <<944900, 893500, 845700, 801200, 759700, 721200, 685200, 651800, 620600,
      591600, 564600, 539500, 516100, 494300, 474000, 455100, 437500, 421200,
      405900, 391700, 378500, 366200, 354700, 344100, 334100, 324900, 316300,
      308300, 300800, 293900, 287400, 281400, 275800, 270500, 265700, 261100,
      256900, 253000, 249300, 245900, 242800, 239800, 237100, 234500, 232100,
      229900, 227900, 225900, 224200, 222500, 220900, 219500, 218200, 216900,
      215700, 214700, 213600, 212700, 211800, 211000, 210300, 209500, 208900,
      208300, 207700, 207200, 206700, 206200, 205800, 205400, 205000, 204700,
      204400, 204100, 203800, 203500, 203300, 203000, 202800, 202600, 202500,
      202300, 202100, 202000, 201800, 201700, 201600, 201500, 201400, 201300,
      201200, 201100, 201000, 201000, 200900, 200800, 200800, 200700, 200700,
      200600, 200600, 200500, 200500, 200500, 200400, 200400, 200400, 200400,
      200300, 200300, 200300, 200300, 200200, 200200, 200200, 200200, 200200,
      200200, 200200, 200200, 200100, 200100, 200100, 200100, 200100, 200100,
      200100, 200100, 200100, 200100, 200100, 200100, 200100, 200100, 200100>>
OverdueUrgency(days_overdue) ==
    IF days_overdue <= Len(OverdueUrgencyTable)
    THEN OverdueUrgencyTable[days_overdue]
    ELSE 200000

\* max(0.05, 1.0 / (1 + log(u / 7))) * SCALE to the nearest unit, u = 31 .. 400
LaterUrgencyTable ==
    <<401917, 396853, 392065, 387529, 383224, 379131, 375233, 371516, 367965,
      364568, 361316, 358197, 355203, 352326, 349558, 346893, 344324, 341846,
      339454, 337142, 334906, 332742, 330646, 328615, 326645, 324734, 322878,
      321075, 319323, 317618, 315959, 314344, 312771, 311238, 309744, 308286,
      306863, 305474, 304118, 302793, 301498, 300232, 298994, 297783, 296597,
      295436, 294300, 293186, 292096, 291026, 289978, 288950, 287941, 286952,
      285981, 285027, 284091, 283172, 282268, 281381, 280509, 279652, 278809,
      277980, 277164, 276362, 275573, 274796, 274032, 273279, 272538, 271808,
      271089, 270381, 269684, 268996, 268318, 267650, 266991, 266342, 265702,
      265070, 264447, 263832, 263226, 262627, 262036, 261453, 260878, 260309,
      259748, 259194, 258647, 258106, 257572, 257045, 256524, 256009, 255499,
      254996, 254499, 254007, 253521, 253041, 252566, 252096, 251631, 251171,
      250717, 250267, 249822, 249382, 248946, 248515, 248088, 247666, 247248,
      246834, 246425, 246019, 245618, 245220, 244826, 244436, 244050, 243668,
      243289, 242914, 242542, 242174, 241809, 241448, 241089, 240734, 240383,
      240034, 239688, 239346, 239006, 238670, 238336, 238005, 237678, 237352,
      237030, 236710, 236393, 236079, 235767, 235458, 235151, 234847, 234545,
      234245, 233948, 233654, 233361, 233071, 232784, 232498, 232215, 231933,
      231654, 231377, 231102, 230829, 230559, 230290, 230023, 229758, 229495,
      229234, 228975, 228717, 228462, 228208, 227956, 227706, 227458, 227211,
      226966, 226723, 226481, 226241, 226003, 225766, 225531, 225297, 225065,
      224834, 224605, 224378, 224152, 223927, 223704, 223482, 223262, 223043,
      222826, 222610, 222395, 222181, 221969, 221758, 221549, 221341, 221134,
      220928, 220724, 220520, 220318, 220118, 219918, 219719, 219522, 219326,
      219131, 218937, 218745, 218553, 218362, 218173, 217985, 217797, 217611,
      217426, 217242, 217059, 216877, 216695, 216515, 216336, 216158, 215981,
      215805, 215629, 215455, 215282, 215109, 214938, 214767, 214597, 214428,
      214260, 214093, 213927, 213762, 213597, 213433, 213271, 213109, 212947,
      212787, 212627, 212469, 212311, 212153, 211997, 211841, 211686, 211532,
      211379, 211226, 211074, 210923, 210773, 210623, 210474, 210326, 210178,
      210031, 209885, 209739, 209595, 209450, 209307, 209164, 209022, 208880,
      208739, 208599, 208460, 208321, 208182, 208045, 207907, 207771, 207635,
      207500, 207365, 207231, 207098, 206965, 206832, 206701, 206569, 206439,
      206309, 206179, 206050, 205922, 205794, 205667, 205540, 205414, 205288,
      205163, 205038, 204914, 204791, 204668, 204545, 204423, 204301, 204180,
      204060, 203940, 203820, 203701, 203582, 203464, 203346, 203229, 203112,
      202996, 202880, 202765, 202650, 202535, 202421, 202308, 202194, 202082,
      201969, 201858, 201746, 201635, 201525, 201414, 201305, 201195, 201087,
      200978, 200870, 200762, 200655, 200548, 200442, 200336, 200230, 200125,
      200020, 199915, 199811, 199707, 199604, 199501, 199398, 199296, 199194,
      199092, 198991, 198890, 198790, 198690, 198590, 198490, 198391, 198293,
      198194>>

LaterUrgency(days_until_due) == LaterUrgencyTable[days_until_due - 30]

\* [score, desc] of the urgency factor
Urgency(task, td) ==
    LET days_until_due == task.due_date - td
        days_overdue == td - task.due_date
    IN  IF task.past_due
        THEN [score |-> OverdueUrgency(days_overdue),
              desc |-> "overdue by " \o ToString(days_overdue) \o "d"]
        ELSE IF days_until_due <= 0 THEN [score |-> 980000, desc |-> "due today"]
        ELSE IF days_until_due <= 1 THEN [score |-> 950000, desc |-> "due tomorrow"]
        ELSE IF days_until_due <= 3 THEN [score |-> 850000, desc |-> "due very soon"]
        ELSE IF days_until_due <= 7 THEN [score |-> 700000, desc |-> "due this week"]
        ELSE IF days_until_due <= 14 THEN [score |-> 500000, desc |-> "due in 2 weeks"]
        ELSE IF days_until_due <= 30 THEN [score |-> 300000, desc |-> "due this month"]
        ELSE [score |-> LaterUrgency(days_until_due), desc |-> "due later"]

Importance(task) ==
    [score |-> (task.importance * (SCALE \div UNIT)) \div 10,
     desc |-> IF task.importance >= 9 * UNIT THEN "critical importance"
              ELSE IF task.importance >= 7 * UNIT THEN "high importance"
              ELSE IF task.importance >= 5 * UNIT THEN "moderate importance"
              ELSE "lower importance"]

Effort(task) ==
    [score |-> SCALE - Min((task.estimated_hours * (SCALE \div UNIT)) \div max_effort_hours,
                           SCALE),
     desc |-> IF task.estimated_hours <= 1 * UNIT THEN "quick win (<=1h)"
              ELSE IF task.estimated_hours <= 3 * UNIT THEN "short task"
              ELSE IF task.estimated_hours <= 8 * UNIT THEN "moderate effort"
              ELSE IF task.estimated_hours <= 16 * UNIT THEN "substantial effort"
              ELSE "large project"]

\* dependency_impact.get(task['id'], 0)
BlockingCount(task, impact) == IF task.id \in DOMAIN impact THEN impact[task.id] ELSE 0

Dependency(task, impact) ==
    LET blocking_count == BlockingCount(task, impact)
    IN  [score |-> Min((blocking_count * SCALE) \div 5, SCALE),
         desc |-> IF blocking_count = 0 THEN ""
                  ELSE IF blocking_count = 1 THEN "blocks 1 task"
                  ELSE "blocks " \o ToString(blocking_count) \o " tasks"]

\* a / b rounded to the nearest integer, halves to the even one (b > 0)
RoundDiv(a, b) ==
    LET q == a \div b
        r == a % b
    IN  IF 2 * r < b THEN q
        ELSE IF 2 * r > b THEN q + 1
        ELSE IF q % 2 = 0 THEN q ELSE q + 1

\* weights[key] * sub-score, times den * SCALE
Contribution(w, key, sub) == w.num[key] * sub

\* round(total_score * 100, 2) in hundredths
TotalScore(task, td, impact, w) ==
    RoundDiv(Contribution(w, "urgency", Urgency(task, td).score)
             + Contribution(w, "importance", Importance(task).score)
             + Contribution(w, "effort", Effort(task).score)
             + Contribution(w, "dependency", Dependency(task, impact).score),
             w.den * (SCALE \div 10000))

_get_priority_label(score) ==
    IF score >= 7500 THEN "High" ELSE IF score >= 5000 THEN "Medium" ELSE "Low"

\* list.sort(key=score, reverse=True): stable, highest first.  Used for the
\* factors of the explanation and for the scored tasks.
RECURSIVE InsertDesc(_, _)
InsertDesc(sorted, x) ==
    IF sorted = <<>> THEN <<x>>
    ELSE IF Head(sorted).score >= x.score
    THEN <<Head(sorted)>> \o InsertDesc(Tail(sorted), x)
    ELSE <<x>> \o sorted

RECURSIVE SortFrom(_, _, _)
SortFrom(seq, i, acc) ==
    IF i > Len(seq) THEN acc ELSE SortFrom(seq, i + 1, InsertDesc(acc, seq[i]))

\* the same sort without reverse=True: stable, lowest first
RECURSIVE InsertAsc(_, _)
InsertAsc(sorted, x) ==
    IF sorted = <<>> THEN <<x>>
    ELSE IF Head(sorted).score <= x.score
    THEN <<Head(sorted)>> \o InsertAsc(Tail(sorted), x)
    ELSE <<x>> \o sorted

RECURSIVE SortAscFrom(_, _, _)
SortAscFrom(seq, i, acc) ==
    IF i > Len(seq) THEN acc ELSE SortAscFrom(seq, i + 1, InsertAsc(acc, seq[i]))

SortDesc_Ascending(seq) == SortAscFrom(seq, 1, <<>>)

SortDesc(seq) == SortFrom(seq, 1, <<>>)

\* seq[:n - 1], a slice one short
Take_OffByOne(seq, n) == SubSeq(seq, 1, Min(n - 1, Len(seq)))

\* seq[:n]
Take(seq, n) == SubSeq(seq, 1, Min(n, Len(seq)))

\* ', '.join(parts)
RECURSIVE Join(_)
Join(parts) ==
    IF parts = <<>> THEN ""
    ELSE IF Len(parts) = 1 THEN parts[1]
    ELSE parts[1] \o ", " \o Join(Tail(parts))

\* the descriptions of the factors worth a mention: desc non-empty and
\* contribution > 0.05
RECURSIVE Mentioned(_, _)
Mentioned(factors, w) ==
    IF factors = <<>> THEN <<>>
    ELSE (IF Head(factors).desc # "" /\ Head(factors).score > w.den * (SCALE \div 20)
          THEN <<Head(factors).desc>> ELSE <<>>) \o Mentioned(Tail(factors), w)

Explanation(task, td, impact, w) ==
    LET u == Urgency(task, td)
        i == Importance(task)
        e == Effort(task)
        d == Dependency(task, impact)
        factors == <<[score |-> Contribution(w, "urgency", u.score), desc |-> u.desc],
                     [score |-> Contribution(w, "importance", i.score), desc |-> i.desc],
                     [score |-> Contribution(w, "effort", e.score), desc |-> e.desc],
                     [score |-> Contribution(w, "dependency", d.score), desc |-> d.desc]>>
        explanation_parts == Mentioned(Take(SortDesc(factors), 3), w)
        text == IF task.past_due THEN "OVERDUE task: " \o Join(explanation_parts)
                ELSE IF explanation_parts # <<>>
                THEN "Priority driven by: " \o Join(explanation_parts)
                ELSE "Standard priority task"
    IN  IF task.incomplete
        THEN text \o " (NOTE: used default values where fields were missing)"
        ELSE text

\* [score, explanation] of one task
_calculate_task_score(task, td, impact, w) ==
    [score |-> TotalScore(task, td, impact, w),
     explanation |-> Explanation(task, td, impact, w)]

\* the loop "for task in validated_tasks" that attaches score, explanation, priority
ScoreEach(ts, td, impact, w) ==
    [i \in DOMAIN ts |->
        LET r == _calculate_task_score(ts[i], td, impact, w)
        IN  ts[i] @@ [score |-> r.score,
                      explanation |-> r.explanation,
                      priority |-> _get_priority_label(r.score)]]

(***************************************************************************)
(* TaskSerializer (serializers.py) as the suggestion endpoint uses it      *)
(***************************************************************************)
\* CharField(required=False): a string stays, a number is written out, None
\* and lists are refused
CharField(v) ==
    CASE IsString(v) -> [ok |-> TRUE, v |-> v]
      [] v.k = "num" -> [ok |-> TRUE, v |-> Str(ToString(v.n))]
      [] OTHER -> [ok |-> FALSE, v |-> Null]

\* due_date: CharField(allow_null=True) then validate_due_date
DueDateField(v) ==
    IF v.k = "null" THEN [ok |-> TRUE, v |-> Null]
    ELSE IF CharField(v).ok /\ ParseDueDate(CharField(v).v).ok THEN CharField(v)
    ELSE [ok |-> FALSE, v |-> Null]

\* FloatField(allow_null=True) then the range check lo <= value <= hi
FloatField(v, lo, hi) ==
    IF v.k = "null" THEN [ok |-> TRUE, v |-> Null]
    ELSE IF PyFloat(v).ok /\ lo * UNIT <= PyFloat(v).n /\ PyFloat(v).n <= hi * UNIT
    THEN [ok |-> TRUE, v |-> Milli(PyFloat(v).n)]
    ELSE [ok |-> FALSE, v |-> Null]

\* ListField(child=CharField())
DependenciesField(v) ==
    IF v.k = "list" /\ \A i \in DOMAIN v.items : CharField(v.items[i]).ok
    THEN [ok |-> TRUE, v |-> List([i \in DOMAIN v.items |-> CharField(v.items[i]).v])]
    ELSE [ok |-> FALSE, v |-> Null]

\* one record through TaskSerializer: absent keys stay absent
SerializeTask(task) ==
    LET Opt(f, r) == IF f.k = "absent" THEN [ok |-> TRUE, v |-> Absent] ELSE r
        id == Opt(task.id, CharField(task.id))
        title == Opt(task.title, CharField(task.title))
        due == Opt(task.due_date, DueDateField(task.due_date))
        hours == Opt(task.estimated_hours, FloatField(task.estimated_hours, 0, 10000))
        imp == Opt(task.importance, FloatField(task.importance, 1, 10))
        deps == Opt(task.dependencies, DependenciesField(task.dependencies))
    IN  [ok |-> id.ok /\ title.ok /\ due.ok /\ hours.ok /\ imp.ok /\ deps.ok,
         data |-> [id |-> id.v, title |-> title.v, due_date |-> due.v,
                   estimated_hours |-> hours.v, importance |-> imp.v,
                   dependencies |-> deps.v]]

\* TaskSerializer(data=tasks, many=True)
TaskSerializer(ts) ==
    [ok |-> \A i \in DOMAIN ts : SerializeTask(ts[i]).ok,
     validated_data |-> [i \in DOMAIN ts |-> SerializeTask(ts[i]).data]]

(***************************************************************************)
(* Orchestrator: score_tasks, one action per stage                         *)
(***************************************************************************)
\* the loop "for idx, task in enumerate(tasks)": acc = [tasks, warnings], or
\* the exception a record raised
RECURSIVE ValidateFrom(_, _, _, _)
ValidateFrom(ts, i, td, acc) ==
    IF i > Len(ts) THEN [raised |-> FALSE, error |-> ""] @@ acc
    ELSE LET r == _validate_task(ts[i], i - 1, td)
         IN  IF r.raised
             THEN [raised |-> TRUE, error |-> r.error, tasks |-> <<>>, warnings |-> <<>>]
             ELSE ValidateFrom(ts, i + 1, td,
                               [tasks |-> Append(acc.tasks, r.task),
                                warnings |-> acc.warnings \o r.warnings])

ValidateAll(ts, td) == ValidateFrom(ts, 1, td, [tasks |-> <<>>, warnings |-> <<>>])

\* f"Circular dependencies detected involving tasks: {circular_deps}"
CircularWarning(ids) ==
    "Circular dependencies detected involving tasks: " \o ToString(ids)

NoResult == [kind |-> "none"]
NoResponse == [status |-> 0]
NoCall == [entry |-> "none"]

\* lines 37-52: normalise every record; an exception leaves score_tasks, an
\* empty batch returns at once
Validate ==
    /\ pc = "validate"
    /\ LET r == ValidateAll(tasks, today)
       IN  IF r.raised
           THEN /\ pc' = "raised"
                /\ result' = [kind |-> "raised", error |-> r.error]
                /\ UNCHANGED <<validated_tasks, warnings>>
           ELSE /\ validated_tasks' = r.tasks
                /\ warnings' = r.warnings
                /\ IF r.tasks = <<>>
                   THEN /\ pc' = "returned"
                        /\ result' = [kind |-> "ok", tasks |-> <<>>, warnings |-> r.warnings]
                   ELSE /\ pc' = "cycles"
                        /\ UNCHANGED result
    /\ UNCHANGED <<entry, today, tasks, strategy, weight_overrides, circular_deps,
                   dependency_impact, weights, strategies, response, previous>>

\* lines 54-60
DetectCycles ==
    /\ pc = "cycles"
    /\ LET found == _detect_circular_dependencies(validated_tasks)
       IN  /\ circular_deps' = found
           /\ IF found # {}
              THEN /\ warnings' = Append(warnings, CircularWarning(found))
                   /\ validated_tasks' =
                        [i \in DOMAIN validated_tasks |->
                            IF validated_tasks[i].id \in found
                            THEN [validated_tasks[i] EXCEPT !.dependency_issue = TRUE]
                            ELSE validated_tasks[i]]
              ELSE UNCHANGED <<warnings, validated_tasks>>
    /\ pc' = "impact"
    /\ UNCHANGED <<entry, today, tasks, strategy, weight_overrides, dependency_impact,
                   weights, strategies, result, response, previous>>

\* line 63
Impact ==
    /\ pc = "impact"
    /\ dependency_impact' = _calculate_dependency_impact(validated_tasks)
    /\ pc' = "weights"
    /\ UNCHANGED <<entry, today, tasks, strategy, weight_overrides, validated_tasks,
                   warnings, circular_deps, weights, strategies, result, response, previous>>

\* line 66
ResolveWeights ==
    /\ pc = "weights"
    /\ LET table == NewStrategies(strategies)
       IN  /\ weights' = _get_strategy_weights(table, strategy, weight_overrides)
           /\ strategies' = StrategiesAfter(table, strategy, weight_overrides)
    /\ pc' = "score"
    /\ UNCHANGED <<entry, today, tasks, strategy, weight_overrides, validated_tasks,
                   warnings, circular_deps, dependency_impact, result, response, previous>>

\* lines 68-75
ScoreAll ==
    /\ pc = "score"
    /\ validated_tasks' = ScoreEach(validated_tasks, today, dependency_impact, weights)
    /\ pc' = "sort"
    /\ UNCHANGED <<entry, today, tasks, strategy, weight_overrides, warnings,
                   circular_deps, dependency_impact, weights, strategies, result, response,
                   previous>>

\* lines 77-83
SortAndReturn ==
    /\ pc = "sort"
    /\ validated_tasks' = SortDesc(validated_tasks)
    /\ result' = [kind |-> "ok", tasks |-> SortDesc(validated_tasks), warnings |-> warnings]
    /\ pc' = "returned"
    /\ UNCHANGED <<entry, today, tasks, strategy, weight_overrides, warnings,
                   circular_deps, dependency_impact, weights, strategies, response, previous>>

(***************************************************************************)
(* SuggestTasksAPIView (views.py): post and _process_suggestion            *)
(***************************************************************************)
ValidStrategies == {"smart", "fast", "impact", "deadline"}

\* post, and _process_suggestion up to the call of score_tasks
SuggestPost ==
    /\ pc = "request"
    /\ entry = "suggest"
    /\ IF strategy \notin ValidStrategies
       THEN /\ response' = [status |-> 400, error |-> "Invalid strategy"]
            /\ pc' = "done"
            /\ UNCHANGED tasks
       ELSE IF tasks = <<>>
       THEN /\ response' = [status |-> 200, suggestions |-> <<>>,
                            warnings |-> <<"No tasks provided for analysis.">>]
            /\ pc' = "done"
            /\ UNCHANGED tasks
       ELSE IF ~TaskSerializer(tasks).ok
       THEN /\ response' = [status |-> 400, error |-> "Invalid task data"]
            /\ pc' = "done"
            /\ UNCHANGED tasks
       ELSE /\ tasks' = TaskSerializer(tasks).validated_data
            /\ pc' = "validate"
            /\ UNCHANGED response
    /\ UNCHANGED <<entry, today, strategy, weight_overrides, validated_tasks, warnings,
                   circular_deps, dependency_impact, weights, strategies, result, previous>>

\* _process_suggestion after score_tasks: the top 3, or the 500 of the except
SuggestRespond ==
    /\ entry = "suggest"
    /\ pc \in {"returned", "raised"}
    /\ response' = IF pc = "returned"
                   THEN [status |-> 200, suggestions |-> Take(result.tasks, 3),
                         warnings |-> result.warnings]
                   ELSE [status |-> 500, error |-> "Error processing task suggestions"]
    /\ pc' = "done"
    /\ UNCHANGED <<entry, today, tasks, strategy, weight_overrides, validated_tasks,
                   warnings, circular_deps, dependency_impact, weights, strategies, result,
                   previous>>

(***************************************************************************)
(* Inputs.  Every specification starts one request; the families below     *)
(* are the requests it may be.                                             *)
(***************************************************************************)
MaxDeps == 2     \* longest dependency list of the dependency-graph family
MaxTasks == 4    \* largest batch of the suggestion family

Today == 1000

RawTask(id, title, due, hours, imp, deps) ==
    [id |-> id, title |-> title, due_date |-> due, estimated_hours |-> hours,
     importance |-> imp, dependencies |-> deps]

NoOverrides == Null
Overrides(f) == [k |-> "dict", items |-> f]

Request(e, ts, strat, ov) ==
    [entry |-> e, tasks |-> ts, strategy |-> strat, weight_overrides |-> ov]

\* all sequences over S of length at most n
SeqsUpTo(S, n) == UNION {[1..m -> S] : m \in 0..n}

\* one loosely typed record, every field over every kind of value
NormRequests ==
    {Request("score_tasks", <<RawTask(id, title, due, hours, imp, deps)>>, "smart", NoOverrides) :
        id \in {Absent, Str("A")},
        title \in {Absent, Str("T")},
        due \in {Absent, Null, IsoDate(Today - 2), IsoDate(Today), IsoDateTimeZ(Today + 5),
                 Str("soon"), Num(7)},
        hours \in {Absent, Null, Num(3), NumText(2), Str("abc"), List(<<>>)},
        imp \in {Absent, Null, Num(8), NumText(7), Str("high"), List(<<>>)},
        deps \in {Absent, Null, List(<<>>), List(<<Str("A")>>), List(<<Num(1)>>), Str("A")}}

\* batches of 1..3 well-formed tasks "A", "B", "C" (in this order) whose
\* dependency lists range over all lists of at most MaxDeps of these ids; in a
\* batch of fewer than 3 tasks the remaining ids name no task
GraphIds == <<"A", "B", "C">>
GraphIdSet == {GraphIds[i] : i \in DOMAIN GraphIds}
GraphTask(id, deps) ==
    RawTask(Str(id), Str(id), IsoDate(Today + 7), Num(3), Num(5),
            List([i \in DOMAIN deps |-> Str(deps[i])]))
GraphRequests ==
    {Request("score_tasks", [i \in 1..n |-> GraphTask(GraphIds[i], d[i])], "smart", NoOverrides) :
        n \in DOMAIN GraphIds, d \in [DOMAIN GraphIds -> SeqsUpTo(GraphIdSet, MaxDeps)]}

\* batches of four tasks "A" .. "D", each with at most one dependency
ChainIds == <<"A", "B", "C", "D">>
ChainRequests ==
    {Request("score_tasks", [i \in DOMAIN ChainIds |-> GraphTask(ChainIds[i], d[i])],
             "smart", NoOverrides) :
        d \in [DOMAIN ChainIds -> SeqsUpTo({ChainIds[i] : i \in DOMAIN ChainIds}, 1)]}

\* two well-formed tasks without dependencies under every strategy name
DueOffsets == {-400, -30, -1, 0, 1, 10, 45}
ScoreTask(id, off, hours, imp) ==
    RawTask(Str(id), Str(id), IsoDate(Today + off), Num(hours), Num(imp), List(<<>>))
ScoreRequests ==
    {Request("score_tasks",
             <<ScoreTask("late", o1, h1, i1), ScoreTask("normal", o2, h2, i2)>>,
             strat, NoOverrides) :
        o1 \in DueOffsets, o2 \in {0, 10}, h1 \in {1, 3, 20}, h2 \in {1, 3, 20},
        i1 \in {4, 5, 9}, i2 \in {4, 5, 9}, strat \in {"smart", "fast", "other"}}

\* three well-formed tasks under the default strategy, equal scores included
TripleRequests ==
    {Request("score_tasks",
             <<ScoreTask("t1", o[1], 3, i[1]), ScoreTask("t2", o[2], 3, i[2]),
               ScoreTask("t3", o[3], 3, i[3])>>,
             "smart", NoOverrides) :
        o \in [1..3 -> {-1, 0, 10}], i \in [1..3 -> {4, 9}]}

\* weight overrides: every mapping from a subset of the keys to a value in
\* hundredths, under every strategy; the scored task "a" holds values the
\* serializer lets through and is listed as a dependency by nb other tasks
OverrideValues == {-30, 0, 200}
OverrideMaps == UNION {[K -> OverrideValues] : K \in SUBSET KeySet}
Blockers(n) == [i \in 1..n |-> ScoreTask(DefaultId(i), 0, 3, 5) @@ [dependencies |-> List(<<Str("a")>>)]]
WeightRequests ==
    {Request("score_tasks",
             <<ScoreTask("a", off, hours, imp)>> \o Blockers(nb),
             strat, ov) :
        <<off, hours, imp, nb>> \in {<<-200, 0, 10, 5>>, <<0, 0, 10, 0>>,
                                     <<-200, 40, 1, 0>>, <<45, 40, 1, 0>>},
        strat \in ValidStrategies \cup {"other"},
        ov \in {NoOverrides} \cup {Overrides(f) : f \in OverrideMaps}}

\* direct calls with values outside the serializer's ranges
RangeRequests ==
    {Request("score_tasks", <<ScoreTask("a", 0, hours, imp)>>, strat, NoOverrides) :
        hours \in {-5, 0, 60}, imp \in {-2, 0, 50}, strat \in ValidStrategies}

\* strategy fast: "long" and "short" with a common due date, whole and
\* fractional hours and importances, in both input orders, alone or both
\* listed as dependencies by a third task
FastHours == {Num(1), Milli(1001), Num(2), Milli(2250), Num(20), Num(40)}
FastImportances == {Num(4), Num(5), Milli(5624), Milli(5780), Num(9)}
FastTask(id, off, hours, imp, deps) ==
    RawTask(Str(id), Str(id), IsoDate(Today + off), hours, imp, List(deps))
FastRequests ==
    {Request("score_tasks",
             <<FastTask("long", off, h1, i1, <<>>), FastTask("short", off, h2, i2, <<>>)>>
             \o (IF blocked
                 THEN <<FastTask("blocker", off, Num(3), Num(5), <<Str("long"), Str("short")>>)>>
                 ELSE <<>>),
             "fast", NoOverrides) :
        off \in DueOffsets, h1 \in FastHours, h2 \in FastHours,
        i1 \in FastImportances, i2 \in FastImportances, blocked \in BOOLEAN}

\* two tasks that differ in the due date only, due today or later, on either
\* side of every bracket of the urgency, under the presets that weigh the
\* urgency least and most
FutureOffsets == {0, 1, 2, 3, 4, 7, 8, 14, 15, 29, 30, 31, 32, 45, 72, 73, 100, 400}
UrgencyRequests ==
    {Request("score_tasks", <<ScoreTask("first", o1, 3, 5), ScoreTask("second", o2, 3, 5)>>,
             strat, NoOverrides) :
        o1 \in FutureOffsets, o2 \in FutureOffsets, strat \in {"impact", "deadline"}}

\* calls made one after another: an empty batch, a record that makes float()
\* raise, and two tasks with defaults and a cycle, under every strategy name
\* and overrides that are absent, renormalised or not
SessionBatches ==
    {<<>>,
     <<RawTask(Str("a"), Str("a"), IsoDate(Today + 10), Str("abc"), Num(5), List(<<>>))>>,
     <<RawTask(Str("a"), Absent, Null, Null, Num(9), List(<<Str("b")>>)),
       RawTask(Str("b"), Str("b"), IsoDate(Today - 3), Num(8), Absent, List(<<Str("a")>>))>>}
SessionOverrides ==
    {NoOverrides,
     Overrides([key \in {"urgency"} |-> 200]),
     Overrides([key \in {"importance", "effort"} |-> IF key = "effort" THEN -30 ELSE 0]),
     Overrides([key \in KeySet |-> 0])}
SessionRequests ==
    {Request("score_tasks", ts, strat, ov) :
        ts \in SessionBatches, strat \in ValidStrategies \cup {"other"},
        ov \in SessionOverrides}

\* the suggestion endpoint: batches of 0..MaxTasks records drawn from a few
\* shapes (one of them refused by the serializer), ids defaulted
SuggestShapes ==
    {RawTask(Absent, Absent, IsoDate(Today + 1), Num(1), Num(9), Absent),
     RawTask(Absent, Absent, IsoDate(Today + 10), NumText(4), Num(6), List(<<>>)),
     RawTask(Absent, Absent, Null, Null, Num(4), List(<<Num(0)>>)),
     RawTask(Absent, Absent, IsoDate(Today - 3), Num(2), Num(11), List(<<>>))}
SuggestRequests ==
    {Request("suggest", ts, strat, NoOverrides) :
        ts \in SeqsUpTo(SuggestShapes, MaxTasks), strat \in {"smart", "deadline", "bogus"}}

(***************************************************************************)
(* The caller: once score_tasks has returned or raised, it may be called   *)
(* again in the same process with any arguments of the family.  The locals *)
(* of the finished call are not reset here: whatever the next call reads   *)
(* of them it must have written itself.                                    *)
(***************************************************************************)
Call(requests) ==
    /\ entry = "score_tasks"
    /\ pc \in {"returned", "raised"}
    /\ \E r \in requests :
          /\ tasks' = r.tasks
          /\ strategy' = r.strategy
          /\ weight_overrides' = r.weight_overrides
    /\ previous' = Request(entry, tasks, strategy, weight_overrides)
    /\ result' = NoResult
    /\ pc' = "validate"
    /\ UNCHANGED <<entry, today, validated_tasks, warnings, circular_deps,
                   dependency_impact, weights, strategies, response>>

(***************************************************************************)
(* Specifications                                                          *)
(***************************************************************************)
InitWith(requests) ==
    /\ \E r \in requests :
          /\ entry = r.entry
          /\ tasks = r.tasks
          /\ strategy = r.strategy
          /\ weight_overrides = r.weight_overrides
    /\ pc = IF entry = "suggest" THEN "request" ELSE "validate"
    /\ today = Today
    /\ validated_tasks = <<>>
    /\ warnings = <<>>
    /\ circular_deps = {}
    /\ dependency_impact = <<>>
    /\ weights = [num |-> Strategies.smart, den |-> 100]
    /\ strategies = Strategies
    /\ result = NoResult
    /\ response = NoResponse
    /\ previous = NoCall

Engine == Validate \/ DetectCycles \/ Impact \/ ResolveWeights \/ ScoreAll \/ SortAndReturn

\* every family, the engine and the endpoint
Init == InitWith(NormRequests \cup GraphRequests \cup ChainRequests \cup ScoreRequests
                 \cup TripleRequests \cup WeightRequests \cup RangeRequests
                 \cup FastRequests \cup UrgencyRequests \cup SuggestRequests)
Next == Engine \/ SuggestPost \/ SuggestRespond
Spec == Init /\ [][Next]_vars

\* the engine on one family of direct calls
SpecNorm == InitWith(NormRequests) /\ [][Engine]_vars
SpecGraph == InitWith(GraphRequests \cup ChainRequests) /\ [][Engine]_vars
SpecScore == InitWith(ScoreRequests \cup TripleRequests \cup RangeRequests) /\ [][Engine]_vars
SpecWeights == InitWith(WeightRequests) /\ [][Engine]_vars
SpecFast == InitWith(FastRequests) /\ [][Engine]_vars
SpecUrgency == InitWith(UrgencyRequests) /\ [][Engine]_vars

\* calls of the engine one after another in one process
SessionNext == Engine \/ Call(SessionRequests)
SpecSession == InitWith(SessionRequests) /\ [][SessionNext]_vars

\* the suggestion endpoint
SpecSuggest == InitWith(SuggestRequests) /\ [][Next]_vars

(***************************************************************************)
(* Properties                                                              *)
(***************************************************************************)
Returned == pc = "returned" /\ result.kind = "ok"

\* the validated task that record i of the batch became (before sorting the
\* validated tasks keep the input order)
Scored(id) == CHOOSE t \in {result.tasks[i] : i \in DOMAIN result.tasks} : t.id = id

\* C1: under the default strategy, of two tasks with estimated_hours 3,
\* importance 5 and no dependencies, one due before the reference date and the
\* other due on it, the overdue one is returned first, with a strictly higher
\* score and past_due = true.
C1_OverdueOutranksDueToday ==
    (/\ Returned
     /\ strategy = "smart"
     /\ weight_overrides = NoOverrides
     /\ Len(result.tasks) = 2
     /\ \A i \in 1..2 : /\ result.tasks[i].estimated_hours = 3 * UNIT
                        /\ result.tasks[i].importance = 5 * UNIT
                        /\ result.tasks[i].dependencies = <<>>
     /\ Scored("late").due_date < today
     /\ Scored("normal").due_date = today)
    => /\ result.tasks[1].id = "late"
       /\ result.tasks[1].past_due
       /\ result.tasks[1].score > result.tasks[2].score

\* C2: whenever the resolved weights sum to 1, every returned score lies in
\* [0, 100] (0 .. 10000 hundredths).
C2_ScoreInRange ==
    (Returned /\ SumWeights(weights.num) = weights.den)
    => \A i \in DOMAIN result.tasks :
          0 <= result.tasks[i].score /\ result.tasks[i].score <= 10000

\* C5: the returned list is in descending order of score.
C5_SortedByScoreDescending ==
    Returned => \A i, j \in DOMAIN result.tasks :
                   i < j => result.tasks[i].score >= result.tasks[j].score

\* C5 witness: a returned batch whose second record scored strictly higher
\* than its first, so the sort moved it to the front
C5_Witness ==
    /\ Returned
    /\ Len(result.tasks) = 2
    /\ result.tasks[1].id = "normal"
    /\ result.tasks[1].score > result.tasks[2].score

\* the value of key after substitution, from the override mapping or the preset table
C7_Value(key) ==
    IF key \in DOMAIN weight_overrides.items
    THEN weight_overrides.items[key]
    ELSE (IF strategy \in DOMAIN Strategies THEN Strategies[strategy] ELSE Strategies.smart)[key]

C7_Sum == C7_Value("urgency") + C7_Value("importance") + C7_Value("effort")
          + C7_Value("dependency")

WeightsResolved == pc \in {"score", "sort", "returned"}

\* C7: with a non-empty override mapping whose substituted weights have a
\* positive sum, each resolved weight is (override, else preset) / sum, and
\* the four resolved weights sum to 1.
C7_RenormalizedWeights ==
    (/\ WeightsResolved
     /\ weight_overrides.k = "dict"
     /\ DOMAIN weight_overrides.items # {}
     /\ C7_Sum > 0)
    => /\ \A key \in KeySet : weights.num[key] * C7_Sum = C7_Value(key) * weights.den
       /\ weights.num.urgency + weights.num.importance + weights.num.effort
          + weights.num.dependency = weights.den

\* C7 witness: only urgency overridden to 2 under smart resolves to 2 / 2.65
C7_Witness ==
    /\ WeightsResolved
    /\ strategy = "smart"
    /\ weight_overrides = Overrides([key \in {"urgency"} |-> 200])
    /\ weights.num.urgency = 200
    /\ weights.den = 265

\* the ids a list names
Listed(deps) == {deps[i] : i \in DOMAIN deps}

\* the dependency graph of a validated batch: id -> the listed ids that are tasks
Successors(ts, id) == UNION {Listed(ts[i].dependencies) : i \in {j \in DOMAIN ts : ts[j].id = id}}
                      \cap IdsOf(ts)

RECURSIVE ReachableFrom(_, _)
ReachableFrom(ts, S) ==
    LET N == S \cup UNION {Successors(ts, x) : x \in S}
    IN  IF N = S THEN S ELSE ReachableFrom(ts, N)

\* a path of at least one edge leads from id back to id
OnCycle(ts, id) == id \in ReachableFrom(ts, Successors(ts, id))

\* C3: two tasks of a batch that list each other are both returned with
\* dependency_issue = true, and the warnings are not empty.
C3_MutualDependencyFlagged ==
    Returned =>
        \A i, j \in DOMAIN result.tasks :
            (/\ i # j
             /\ result.tasks[j].id \in Listed(result.tasks[i].dependencies)
             /\ result.tasks[i].id \in Listed(result.tasks[j].dependencies))
            => /\ result.tasks[i].dependency_issue
               /\ result.tasks[j].dependency_issue
               /\ result.warnings # <<>>

\* C3 witness: "B" and "C" list each other in a batch where the first record
\* "A" depends on "B" and on an id that names no cycle, and both are flagged
C3_Witness ==
    /\ Returned
    /\ Len(result.tasks) = 3
    /\ Scored("A").dependencies = <<"B", "A">>
    /\ Scored("B").dependencies = <<"C">>
    /\ Scored("C").dependencies = <<"A", "B">>
    /\ Scored("B").dependency_issue
    /\ Scored("C").dependency_issue
    /\ result.warnings # <<>>

\* C4: a returned task has dependency_issue = true only if it lies on a
\* directed cycle of in-batch dependency edges.
C4_FlaggedOnlyOnCycle ==
    Returned =>
        \A i \in DOMAIN result.tasks :
            result.tasks[i].dependency_issue => OnCycle(result.tasks, result.tasks[i].id)

ImpactComputed == pc \in {"weights", "score", "sort", "returned"}

\* C8: the blocking count of a task is the number of other tasks of the batch
\* that list its id as a dependency.
C8_BlockingCountsOtherTasks ==
    ImpactComputed =>
        \A i \in DOMAIN validated_tasks :
            dependency_impact[validated_tasks[i].id] =
                Cardinality({j \in DOMAIN validated_tasks :
                                /\ j # i
                                /\ validated_tasks[i].id \in Listed(validated_tasks[j].dependencies)})

\* C6: for a valid non-empty batch of n tasks the suggestion endpoint answers
\* with exactly min(3, n) suggestions, the first min(3, n) entries of the
\* score-descending list score_tasks returned, in the same order.
C6_SuggestReturnsTopThree ==
    (/\ entry = "suggest"
     /\ pc = "done"
     /\ strategy \in ValidStrategies
     /\ tasks # <<>>
     /\ \A i \in DOMAIN tasks : SerializeTask(tasks[i]).ok)
    => /\ response.status = 200
       /\ result.kind = "ok"
       /\ Len(result.tasks) = Len(tasks)
       /\ Len(response.suggestions) = (IF Len(tasks) < 3 THEN Len(tasks) ELSE 3)
       /\ \A i \in DOMAIN response.suggestions : response.suggestions[i] = result.tasks[i]
       /\ \A i, j \in DOMAIN result.tasks :
             i < j => result.tasks[i].score >= result.tasks[j].score

\* C6 witness: four valid tasks, three suggestions, the fourth-ranked left out
C6_Witness ==
    /\ entry = "suggest"
    /\ pc = "done"
    /\ Len(tasks) = 4
    /\ response.status = 200
    /\ Len(response.suggestions) = 3
    /\ result.tasks[1].score > result.tasks[4].score

\* C9: _validate_task raises no error, whatever the record holds.
C9_NormalizationNeverRaises == pc # "raised" /\ result.kind # "raised"

Normalized == pc = "cycles"

IsMissing(v) == v.k \in {"absent", "null"}

\* a default replaced the raw value of some field of the record
C10_AnyDefault(raw) ==
    \/ raw.id.k = "absent"
    \/ raw.title.k = "absent"
    \/ raw.due_date.k \notin {"isodate", "isodatetimez"}
    \/ IsMissing(raw.estimated_hours)
    \/ IsMissing(raw.importance)
    \/ raw.dependencies.k # "list"

\* a default replaced, with a warning, the raw value of due_date,
\* estimated_hours, importance or a dependencies value that is no list
C10_WarnedDefault(raw) ==
    \/ raw.due_date.k \notin {"isodate", "isodatetimez"}
    \/ IsMissing(raw.estimated_hours)
    \/ IsMissing(raw.importance)
    \/ raw.dependencies.k \notin {"list", "absent"}

\* C10 as stated: incomplete is true exactly when a default was substituted
\* for any field of the record.
C10_IncompleteIffAnyDefault ==
    Normalized =>
        \A i \in DOMAIN validated_tasks :
            validated_tasks[i].incomplete = C10_AnyDefault(tasks[i])

\* C10 amended: incomplete is true exactly when a default was substituted with
\* a warning (due_date missing or unparsable, estimated_hours or importance
\* absent or null, dependencies present but no list); the defaults of id, of
\* title and of an absent dependencies key leave it false.
C10_IncompleteIffWarnedDefault ==
    Normalized =>
        \A i \in DOMAIN validated_tasks :
            /\ validated_tasks[i].incomplete = C10_WarnedDefault(tasks[i])
            /\ validated_tasks[i].incomplete = (validated_tasks[i].validation_warnings # <<>>)

\* C10 witness: id, title and dependencies defaulted without a warning, the
\* task not incomplete
C10_Witness ==
    /\ Normalized
    /\ tasks[1].id = Absent
    /\ tasks[1].title = Absent
    /\ tasks[1].dependencies = Absent
    /\ validated_tasks[1].id = "task_0"
    /\ validated_tasks[1].dependencies = <<>>
    /\ ~validated_tasks[1].incomplete

\* 400 * UNIT times (effort advantage of a - importance advantage of b) under
\* fast: 0.50 * (b.hours - a.hours) / 40 - 0.20 * (b.importance - a.importance) / 10
C11_Advantage(a, b) ==
    5 * (b.estimated_hours - a.estimated_hours) - 8 * (b.importance - a.importance)

\* two returned tasks with the same due date, the same blocking count and
\* estimated_hours at most 40, the first with fewer hours
C11_Comparable(a, b) ==
    /\ a.due_date = b.due_date
    /\ dependency_impact[a.id] = dependency_impact[b.id]
    /\ a.estimated_hours <= max_effort_hours * UNIT
    /\ b.estimated_hours <= max_effort_hours * UNIT
    /\ a.estimated_hours < b.estimated_hours

\* C11 as stated: under strategy fast, of two tasks with the same due date,
\* the same blocking count and estimated_hours at most 40, the one with fewer
\* hours is returned first whenever its effort advantage 0.50 * (difference in
\* hours / 40) exceeds the other's importance advantage 0.20 * (difference in
\* importance / 10).
C11_FewerHoursFirstOnAnyAdvantage ==
    (Returned /\ strategy = "fast" /\ weight_overrides = NoOverrides) =>
        \A i, j \in DOMAIN result.tasks :
            (/\ C11_Comparable(result.tasks[i], result.tasks[j])
             /\ C11_Advantage(result.tasks[i], result.tasks[j]) > 0)
            => i < j

\* C11 amended: under the same conditions the task with fewer hours is
\* returned first whenever its effort advantage exceeds the other's importance
\* advantage by more than 0.0001 (0.01 of a score point), and never has the
\* lower score when it exceeds it at all.
C11_FewerHoursFirstOnClearAdvantage ==
    (Returned /\ strategy = "fast" /\ weight_overrides = NoOverrides) =>
        \A i, j \in DOMAIN result.tasks :
            C11_Comparable(result.tasks[i], result.tasks[j]) =>
                /\ C11_Advantage(result.tasks[i], result.tasks[j]) > (4 * UNIT) \div 100
                   => i < j
                /\ C11_Advantage(result.tasks[i], result.tasks[j]) > 0
                   => result.tasks[i].score >= result.tasks[j].score

\* C11 witness: "long" (20 hours, importance 9) handed in first and "short"
\* (1 hour, importance 4) second, both overdue by the same days, "short"
\* returned first
C11_Witness ==
    /\ Returned
    /\ strategy = "fast"
    /\ Len(result.tasks) = 2
    /\ tasks[1].id = Str("long")
    /\ Scored("long").estimated_hours = 20 * UNIT /\ Scored("long").importance = 9 * UNIT
    /\ Scored("short").estimated_hours = 1 * UNIT /\ Scored("short").importance = 4 * UNIT
    /\ Scored("long").past_due
    /\ result.tasks[1].id = "short"
    /\ result.tasks[1].score > result.tasks[2].score

\* C12: for tasks that are not past due the urgency sub-score is
\* non-increasing in the days until the due date: of two returned tasks the
\* one due sooner has an urgency at least that of the other, also across the
\* boundary between "due this month" (at most 30 days) and "due later".
C12_UrgencyNonIncreasing ==
    Returned =>
        \A i, j \in DOMAIN result.tasks :
            (/\ ~result.tasks[i].past_due
             /\ ~result.tasks[j].past_due
             /\ result.tasks[i].due_date < result.tasks[j].due_date)
            => Urgency(result.tasks[i], today).score >= Urgency(result.tasks[j], today).score

CyclesDetected == pc \in {"impact", "weights", "score", "sort", "returned"}

\* the graph of in-batch dependency edges has a directed cycle
HasCycle(ts) == \E i \in DOMAIN ts : OnCycle(ts, ts[i].id)

\* C13: on a batch with unique ids the cycle detector returns a non-empty set,
\* and score_tasks appends exactly one circular-dependency warning, if and only
\* if the graph of in-batch dependency edges has a cycle (self-dependencies
\* included, ids that name no task of the batch making no edge); on an acyclic
\* batch no task is flagged and no warning is appended.
C13_DetectedIffCycle ==
    CyclesDetected =>
        LET cyclic == HasCycle(validated_tasks)
            before == ValidateAll(tasks, today).warnings
        IN  /\ (circular_deps # {}) = cyclic
            /\ cyclic => warnings = Append(before, CircularWarning(circular_deps))
            /\ ~cyclic => /\ warnings = before
                          /\ \A i \in DOMAIN validated_tasks :
                                ~validated_tasks[i].dependency_issue

\* C13 witness: "A" and "B" list each other and an id that names no task of
\* the batch; both are found and one warning is appended
C13_Witness ==
    /\ Returned
    /\ Len(result.tasks) = 2
    /\ Scored("A").dependencies = <<"C", "B">>
    /\ Scored("B").dependencies = <<"C", "A">>
    /\ circular_deps = {"A", "B"}
    /\ Len(result.warnings) = 1

\* an acyclic batch with an id that names no task and a task reached twice,
\* nothing found
C13_AcyclicWitness ==
    /\ Returned
    /\ Len(result.tasks) = 3
    /\ Scored("A").dependencies = <<"B", "C">>
    /\ Scored("B").dependencies = <<"C">>
    /\ Scored("C").dependencies = <<>>
    /\ circular_deps = {}
    /\ result.warnings = <<>>

\* what score_tasks(ts, strat, ov) gives when it is the only call ever made,
\* on the reference date td
C14_Isolated(ts, strat, ov, td) ==
    LET v == ValidateAll(ts, td)
        found == _detect_circular_dependencies(v.tasks)
        marked == [i \in DOMAIN v.tasks |->
                     IF v.tasks[i].id \in found
                     THEN [v.tasks[i] EXCEPT !.dependency_issue = TRUE]
                     ELSE v.tasks[i]]
        warned == IF found # {} THEN Append(v.warnings, CircularWarning(found))
                  ELSE v.warnings
        impact == _calculate_dependency_impact(marked)
        w == _get_strategy_weights(Strategies, strat, ov)
    IN  IF v.raised THEN [kind |-> "raised", error |-> v.error]
        ELSE IF v.tasks = <<>> THEN [kind |-> "ok", tasks |-> <<>>, warnings |-> v.warnings]
        ELSE [kind |-> "ok", tasks |-> SortDesc(ScoreEach(marked, td, impact, w)),
              warnings |-> warned]

\* a call has resolved its weights and no later call has begun
C14_WeightsOfThisCall == pc \in {"score", "sort", "returned"} /\ validated_tasks # <<>>

\* the weights a call uses are those of the fixed table with this call's own
\* overrides, and what the call returns or raises is what the same call
\* gives in isolation
C14_SameAsIsolated ==
    /\ C14_WeightsOfThisCall =>
          \A key \in KeySet :
              weights.num[key] =
                  (IF Truthy(weight_overrides) /\ key \in DOMAIN weight_overrides.items
                   THEN weight_overrides.items[key]
                   ELSE Strategies[IF strategy \in ValidStrategies THEN strategy
                                   ELSE "smart"][key])
    /\ pc \in {"returned", "raised"} =>
          result = C14_Isolated(tasks, strategy, weight_overrides, today)

\* while a call runs, the arguments the caller passed are left as they are
C14_ArgumentsKept ==
    pc \notin {"returned", "raised"}
    => /\ tasks' = tasks
       /\ strategy' = strategy
       /\ weight_overrides' = weight_overrides

\* C14: across any sequence of score_tasks calls no call changes what a later
\* one computes: the presets a later call uses are the fixed table values
\* whatever the overrides of earlier calls, the arguments passed by the caller
\* are left unmodified, and each call's result equals that of the same call
\* made in isolation on the same reference date.
C14_CallsAreIndependent == [](C14_SameAsIsolated) /\ [][C14_ArgumentsKept]_vars

\* C14 witness: a call under smart without overrides has returned after a call
\* that overrode the urgency of smart, with the preset urgency 0.35
C14_Witness ==
    /\ pc = "returned"
    /\ result.kind = "ok" /\ result.tasks # <<>>
    /\ previous # NoCall
    /\ previous.strategy = "smart"
    /\ previous.weight_overrides = Overrides([key \in {"urgency"} |-> 200])
    /\ previous.tasks # <<>>
    /\ strategy = "smart"
    /\ weight_overrides = NoOverrides
    /\ weights = [num |-> Strategies.smart, den |-> 100]
    /\ strategies = Strategies

=============================================================================
